---------------------------- MODULE Spec2Model ----------------------------
(***************************************************************************)
(* Model of calendar_syncer.py: main() fetches the time entries of the     *)
(* time-tracking service, locates the calendar named 'work' on the CalDAV  *)
(* server and saves one event per entry.                                   *)
(*                                                                         *)
(* A run of main() is a process p; its position is pc[p].  The remote      *)
(* calendar (store) is shared by the runs.  Every outward call and every   *)
(* log line of a run is appended to trace[p] in the order the code issues  *)
(* it.                                                                     *)
(***************************************************************************)
EXTENDS Integers, Sequences, FiniteSets, TLC

VARIABLES
    procs,          \* the runs of main() that exist
    serviceEntries, \* the time entries the time-tracking service holds
    calendars,      \* principal.calendars(): the names, in listing order
    calendar_name,  \* the requested calendar name (main: line 86)
    pc,             \* pc[p]: position of run p in main()
    time_entries,   \* time_entries[p]: what fetch_time_entries returned
    calendar,       \* calendar[p]: index in calendars, 0 for None
    pos,            \* pos[p]: number of loop iterations completed
    fault,          \* fault[p]: the uncaught exception that ended run p
    trace,          \* trace[p]: requests, saves and log lines, in order
    store           \* events persisted on the remote calendar, in order

vars == <<procs, serviceEntries, calendars, calendar_name, pc, time_entries,
          calendar, pos, fault, trace, store>>

-----------------------------------------------------------------------------
(* Bounds of the model *)

MaxEntries == 3

MaxCalendars == 2

-----------------------------------------------------------------------------
(* datetime: proleptic Gregorian ordinals, as datetime computes them *)

IsLeap(y) == (y % 4 = 0) /\ ((y % 100 # 0) \/ (y % 400 = 0))

DaysInMonth(y, m) ==
    IF m = 2 THEN (IF IsLeap(y) THEN 29 ELSE 28)
    ELSE IF m \in {4, 6, 9, 11} THEN 30 ELSE 31

DaysBeforeYear(y) ==
    (y - 1) * 365 + ((y - 1) \div 4) - ((y - 1) \div 100) + ((y - 1) \div 400)

RECURSIVE DaysBeforeMonth(_, _)
DaysBeforeMonth(y, m) ==
    IF m = 1 THEN 0 ELSE DaysBeforeMonth(y, m - 1) + DaysInMonth(y, m - 1)

\* datetime.toordinal(): 1 for 0001-01-01
YmdToOrd(y, m, d) == DaysBeforeYear(y) + DaysBeforeMonth(y, m) + d

\* datetime.fromordinal(): the 400/100/4/1-year cycle decomposition
OrdToYmd(ord) ==
    LET n0   == ord - 1
        n400 == n0 \div 146097
        r400 == n0 % 146097
        n100 == r400 \div 36524
        r100 == r400 % 36524
        n4   == r100 \div 1461
        r4   == r100 % 1461
        n1   == r4 \div 365
        r1   == r4 % 365
        year == n400 * 400 + n100 * 100 + n4 * 4 + n1 + 1
    IN  IF n1 = 4 \/ n100 = 4
        THEN [y |-> year - 1, mo |-> 12, d |-> 31]
        ELSE LET m == CHOOSE k \in 1..12 :
                          /\ DaysBeforeMonth(year, k) <= r1
                          /\ r1 < DaysBeforeMonth(year, k) + DaysInMonth(year, k)
             IN  [y |-> year, mo |-> m, d |-> r1 - DaysBeforeMonth(year, m) + 1]



\* a naive datetime as <<ordinal, second of day>>
Instant(t) == <<YmdToOrd(t.y, t.mo, t.d), t.h * 3600 + t.mi * 60 + t.s>>

Before(a, b) == a[1] < b[1] \/ (a[1] = b[1] /\ a[2] < b[2])

\* datetime + timedelta(seconds = delta), normalised with divmod
PlusSeconds(inst, delta) ==
    LET total == inst[2] + delta
    IN  <<inst[1] + (total \div 86400), total % 86400>>

\* the last Sunday of a 31-day month (weekday() = 6 iff ordinal % 7 = 0)
LastSunday(y, m) == CHOOSE d \in 25..31 : YmdToOrd(y, m, d) % 7 = 0

\* pytz 'Europe/Rome': CET (+1h), CEST (+2h) from the last Sunday of March
\* 01:00 UTC until the last Sunday of October 01:00 UTC
RomeOffset(inst) ==
    LET y     == OrdToYmd(inst[1]).y
        begin == <<YmdToOrd(y, 3, LastSunday(y, 3)), 3600>>
        end   == <<YmdToOrd(y, 10, LastSunday(y, 10)), 3600>>
    IN  IF ~Before(inst, begin) /\ Before(inst, end) THEN 7200 ELSE 3600

\* as ToRome, with t.replace(tzinfo=zone): the fields kept, the offset attached
ToRomeReplace(t) ==
    [y |-> t.y, mo |-> t.mo, d |-> t.d, h |-> t.h, mi |-> t.mi, s |-> t.s,
     utcoffset |-> RomeOffset(Instant(t))]

\* t.replace(tzinfo=pytz.utc).astimezone(pytz.timezone('Europe/Rome'))
ToRome(t) ==
    LET utc   == Instant(t)
        off   == RomeOffset(utc)
        local == PlusSeconds(utc, off)
        ymd   == OrdToYmd(local[1])
    IN  [y |-> ymd.y, mo |-> ymd.mo, d |-> ymd.d,
         h |-> local[2] \div 3600, mi |-> (local[2] % 3600) \div 60,
         s |-> local[2] % 60, utcoffset |-> off]

-----------------------------------------------------------------------------
(* Time entries, as the JSON the service returns *)

\* the text of a timestamp: its numeric fields and what follows the seconds
Stamp(y, mo, d, h, mi, s, tail) ==
    [y |-> y, mo |-> mo, d |-> d, h |-> h, mi |-> mi, s |-> s, tail |-> tail]

\* datetime.strptime(text, '%Y-%m-%dT%H:%M:%SZ') raises ValueError unless this holds
StrptimeOK(text) ==
    /\ text.tail = "Z"
    /\ text.mo \in 1..12
    /\ text.d \in 1..DaysInMonth(text.y, text.mo)
    /\ text.h \in 0..23
    /\ text.mi \in 0..59
    /\ text.s \in 0..59

\* the naive datetime strptime returns
Strptime(text) ==
    [y |-> text.y, mo |-> text.mo, d |-> text.d,
     h |-> text.h, mi |-> text.mi, s |-> text.s]

Coding ==
    [id |-> "abc123", description |-> "Coding",
     timeInterval |-> [start |-> Stamp(2024, 3, 1, 9, 0, 0, "Z"),
                       end   |-> Stamp(2024, 3, 1, 10, 30, 0, "Z")]]

\* no description; local time falls on the next day, in summer time
Untitled ==
    [id |-> "nodesc1",
     timeInterval |-> [start |-> Stamp(2024, 7, 15, 22, 30, 0, "Z"),
                       end   |-> Stamp(2024, 7, 15, 23, 45, 0, "Z")]]

\* straddles the switch to summer time
Review ==
    [id |-> "dst1", description |-> "Review",
     timeInterval |-> [start |-> Stamp(2024, 3, 31, 0, 59, 59, "Z"),
                       end   |-> Stamp(2024, 3, 31, 1, 0, 0, "Z")]]

\* starts on the leap day, ends in the next year in local time
Planning ==
    [id |-> "long1", description |-> "Planning",
     timeInterval |-> [start |-> Stamp(2024, 2, 29, 23, 10, 0, "Z"),
                       end   |-> Stamp(2024, 12, 31, 23, 30, 0, "Z")]]

NoId ==
    [description |-> "Call",
     timeInterval |-> [start |-> Stamp(2024, 10, 27, 0, 59, 59, "Z"),
                       end   |-> Stamp(2024, 10, 27, 1, 0, 0, "Z")]]

\* fractional seconds: not the '%SZ' the format expects
BadStart ==
    [id |-> "frac1", description |-> "Email",
     timeInterval |-> [start |-> Stamp(2024, 3, 1, 9, 0, 0, ".000Z"),
                       end   |-> Stamp(2024, 3, 1, 10, 30, 0, "Z")]]

\* 30 February
BadEnd ==
    [id |-> "feb30", description |-> "Email",
     timeInterval |-> [start |-> Stamp(2024, 2, 29, 9, 0, 0, "Z"),
                       end   |-> Stamp(2024, 2, 30, 9, 0, 0, "Z")]]

\* a running timer: the interval has no end
NoEnd ==
    [id |-> "open1", description |-> "Timer",
     timeInterval |-> [start |-> Stamp(2024, 3, 1, 9, 0, 0, "Z")]]

Catalogue ==
    {Coding, Untitled, Review, Planning, NoId, BadStart, BadEnd, NoEnd}

SeqsUpTo(S, n) == UNION {[1..k -> S] : k \in 0..n}

-----------------------------------------------------------------------------
(* fetch_time_entries *)

\* response.json() of a body that is a JSON array of entries
ListBody(entries) == [kind |-> "list", items |-> entries]

\* response.json() of a body that is a JSON object: key/value pairs in order
DictBody(entries) ==
    [kind |-> "dict",
     pairs |-> [i \in 1..Len(entries) |-> <<ToString(i), entries[i]>>]]

NoBody == [kind |-> "none"]

\* as Iterate, but a dict yields its values (`.values()`)
IterateValues(body) ==
    IF body.kind = "list" THEN body.items
    ELSE IF body.kind = "dict"
         THEN [i \in 1..Len(body.pairs) |-> body.pairs[i][2]]
         ELSE <<>>

\* `for entry in time_entries`: a list yields its items, a dict its keys
Iterate(body) ==
    IF body.kind = "list" THEN body.items
    ELSE IF body.kind = "dict"
         THEN [i \in 1..Len(body.pairs) |-> [str |-> body.pairs[i][1]]]
         ELSE <<>>

-----------------------------------------------------------------------------
(* get_calendar *)

LowerChar(c) ==
    CASE c = "W" -> "w" [] c = "O" -> "o" [] c = "R" -> "r" [] c = "K" -> "k"
      [] c = "H" -> "h" [] c = "M" -> "m" [] c = "E" -> "e" [] c = "S" -> "s"
      [] OTHER -> c

\* str.lower()
Lower(name) == [i \in 1..Len(name) |-> LowerChar(name[i])]

None == 0

\* lines 43-47: the scan from position i on; the index of the calendar returned
RECURSIVE ScanCalendars(_, _, _)
ScanCalendars(cals, name, i) ==
    IF i > Len(cals) THEN None
    ELSE IF Lower(cals[i]) = Lower(name) THEN i
    ELSE ScanCalendars(cals, name, i + 1)

IsPrefix(a, b) == Len(a) <= Len(b) /\ SubSeq(b, 1, Len(a)) = a

\* as ScanCalendars, with `calendar.name.lower().startswith(...)`
RECURSIVE ScanPrefix(_, _, _)
ScanPrefix(cals, name, i) ==
    IF i > Len(cals) THEN None
    ELSE IF IsPrefix(Lower(name), Lower(cals[i])) THEN i
    ELSE ScanPrefix(cals, name, i + 1)

get_calendarPrefix(cals, name) == ScanPrefix(cals, name, 1)

\* as ScanCalendars, comparing the names as they are
RECURSIVE ScanExact(_, _, _)
ScanExact(cals, name, i) ==
    IF i > Len(cals) THEN None
    ELSE IF cals[i] = name THEN i
    ELSE ScanExact(cals, name, i + 1)

get_calendarExact(cals, name) == ScanExact(cals, name, 1)

get_calendar(cals, name) == ScanCalendars(cals, name, 1)

-----------------------------------------------------------------------------
(* add_entries_to_calendar: one entry *)

IsDict(entry) == "str" \notin DOMAIN entry

Exc(exc, line) == [exc |-> exc, line |-> line]

\* the exception lines 67-74 raise for an entry, "none" when they raise none
EntryFault(entry) ==
    IF ~IsDict(entry) THEN Exc("TypeError", 67)
    ELSE IF "timeInterval" \notin DOMAIN entry THEN Exc("KeyError", 67)
    ELSE IF "start" \notin DOMAIN entry.timeInterval THEN Exc("KeyError", 67)
    ELSE IF ~StrptimeOK(entry.timeInterval.start) THEN Exc("ValueError", 67)
    ELSE IF "end" \notin DOMAIN entry.timeInterval THEN Exc("KeyError", 68)
    ELSE IF ~StrptimeOK(entry.timeInterval.end) THEN Exc("ValueError", 68)
    ELSE IF "id" \notin DOMAIN entry THEN Exc("KeyError", 74)
    ELSE Exc("none", 0)

\* as Summary, with entry.get('description') and its default of None
SummaryNoDefault(entry) ==
    IF "description" \in DOMAIN entry THEN entry.description ELSE "None"

\* entry.get('description', 'Work Entry')
Summary(entry) ==
    IF "description" \in DOMAIN entry THEN entry.description ELSE "Work Entry"

\* lines 67-74; dtstamp (the time of the run) is not part of the model
BuildEvent(entry) ==
    [summary |-> Summary(entry),
     dtstart |-> ToRome(Strptime(entry.timeInterval.start)),
     dtend   |-> ToRome(Strptime(entry.timeInterval.end)),
     uid     |-> entry.id]

-----------------------------------------------------------------------------
(* What a run leaves in its trace *)

Request == [op |-> "GET time-entries"]

Listing == [op |-> "principal.calendars"]

Log(level, msg) == [op |-> "log", level |-> level, msg |-> msg]

\* line 76: description, start.strftime('%d-%m-%Y') and calendar.name
AddedLine(entry, calName) ==
    [op |-> "log", level |-> "INFO", msg |-> "Added entry",
     description |-> entry.description,
     date |-> <<entry.timeInterval.start.d, entry.timeInterval.start.mo,
                entry.timeInterval.start.y>>,
     calendar |-> calName]

SaveCall(event, returned) ==
    [op |-> "save_event", event |-> event, returned |-> returned]

NoFault == [at |-> "none", exc |-> "none", line |-> 0, k |-> 0]

Raised(at, exc, line, k) == [at |-> at, exc |-> exc, line |-> line, k |-> k]

-----------------------------------------------------------------------------
(* Initial states *)

work == <<"w", "o", "r", "k">>

\* the calendars the account of a run of main() may list
AccountCalendars == {<<"W", "o", "r", "k">>, <<"w", "o", "r", "k", "s">>}

\* names for get_calendar called on its own
CalendarNames ==
    {work, <<"W", "o", "r", "k">>, <<"W", "O", "R", "K">>,
     <<"w", "o", "r", "k", "s">>, <<"h", "o", "m", "e">>}

RequestNames == {work, <<"W", "o", "r", "k">>, <<"H", "O", "M", "E">>}

Start(P, at) ==
    /\ procs = P
    /\ pc = [p \in P |-> at]
    /\ time_entries = [p \in P |-> NoBody]
    /\ calendar = [p \in P |-> None]
    /\ pos = [p \in P |-> 0]
    /\ fault = [p \in P |-> NoFault]
    /\ trace = [p \in P |-> <<>>]
    /\ store = <<>>

\* one run of main()
Init ==
    /\ serviceEntries \in SeqsUpTo(Catalogue, MaxEntries)
    /\ calendars \in SeqsUpTo(AccountCalendars, MaxCalendars)
    /\ calendar_name = work
    /\ Start({1}, "fetch")

\* two runs of main() against the same service and the same account
InitTwo ==
    /\ serviceEntries \in SeqsUpTo({Coding, Untitled, Review, BadStart}, MaxEntries)
    /\ calendars \in {<<>>, <<<<"W", "o", "r", "k">>>>}
    /\ calendar_name = work
    /\ Start({1, 2}, "fetch")

\* get_calendar called on its own, with any requested name
InitLocator ==
    /\ serviceEntries = <<>>
    /\ calendars \in SeqsUpTo(CalendarNames, MaxCalendars)
    /\ calendar_name \in RequestNames
    /\ Start({1}, "locate")

-----------------------------------------------------------------------------
(* The steps of main() *)

Emit(p, events) == trace' = [trace EXCEPT ![p] = @ \o events]

Abort(p, exc) ==
    /\ pc' = [pc EXCEPT ![p] = "fault"]
    /\ fault' = [fault EXCEPT ![p] = exc]

\* line 89: fetch_time_entries.  requests.get raises when the service cannot
\* be reached; response.json() raises when the body is not JSON; the status
\* of the response is never read.
Fetch(p) ==
    /\ pc[p] = "fetch"
    /\ \E answer \in {"list", "dict", "undecodable", "unreachable"} :
          CASE answer = "unreachable" ->
                  /\ Emit(p, <<Request>>)
                  /\ Abort(p, Raised("fetch", "ConnectionError", 24, 0))
                  /\ UNCHANGED time_entries
            [] answer = "undecodable" ->
                  /\ Emit(p, <<Request, Log("INFO", "Fetching time entries")>>)
                  /\ Abort(p, Raised("fetch", "JSONDecodeError", 26, 0))
                  /\ UNCHANGED time_entries
            [] OTHER ->
                  /\ Emit(p, <<Request, Log("INFO", "Fetching time entries")>>)
                  /\ time_entries' = [time_entries EXCEPT ![p] =
                        IF answer = "list" THEN ListBody(serviceEntries)
                                           ELSE DictBody(serviceEntries)]
                  /\ pc' = [pc EXCEPT ![p] = "locate"]
                  /\ UNCHANGED fault
    /\ UNCHANGED <<procs, serviceEntries, calendars, calendar_name, calendar,
                   pos, store>>

\* lines 90-91: get_calendar and the test of its result
Locate(p) ==
    /\ pc[p] = "locate"
    /\ \E reachable \in BOOLEAN :
          IF reachable
          THEN LET found == get_calendar(calendars, calendar_name)
               IN  /\ calendar' = [calendar EXCEPT ![p] = found]
                   /\ pc' = [pc EXCEPT ![p] =
                                IF found # None THEN "write" ELSE "notfound"]
                   /\ UNCHANGED fault
          ELSE /\ Abort(p, Raised("locate", "DAVError", 41, 0))
               /\ UNCHANGED calendar
    /\ Emit(p, <<Listing>>)
    /\ UNCHANGED <<procs, serviceEntries, calendars, calendar_name,
                   time_entries, pos, store>>

\* line 95
NotFound(p) ==
    /\ pc[p] = "notfound"
    /\ Emit(p, <<Log("ERROR", "Work calendar not found.")>>)
    /\ pc' = [pc EXCEPT ![p] = "done"]
    /\ UNCHANGED <<procs, serviceEntries, calendars, calendar_name,
                   time_entries, calendar, pos, fault, store>>

\* as Propagate, with the exception caught and the loop going on
PropagateSkip(p, exc) ==
    /\ fault' = [fault EXCEPT ![p] = exc]
    /\ pos' = [pos EXCEPT ![p] = exc.k]
    /\ UNCHANGED pc

\* an exception raised inside the loop leaves add_entries_to_calendar and main
Propagate(p, exc) ==
    /\ Abort(p, exc)
    /\ UNCHANGED pos

\* lines 66-76: one iteration of the loop of add_entries_to_calendar
AddEntry(p) ==
    /\ pc[p] = "write"
    /\ pos[p] < Len(Iterate(time_entries[p]))
    /\ LET k     == pos[p] + 1
           entry == Iterate(time_entries[p])[k]
           bad   == EntryFault(entry)
       IN  IF bad.exc # "none"
           THEN /\ Propagate(p, Raised("entry", bad.exc, bad.line, k))
                /\ UNCHANGED <<trace, store>>
           ELSE \E saved \in BOOLEAN :
                  LET event == BuildEvent(entry)
                  IN  IF ~saved
                      THEN /\ Emit(p, <<SaveCall(event, FALSE)>>)
                           /\ Propagate(p, Raised("entry", "DAVError", 75, k))
                           /\ UNCHANGED store
                      ELSE /\ store' = Append(store, event)
                           /\ IF "description" \in DOMAIN entry
                              THEN /\ Emit(p, <<SaveCall(event, TRUE),
                                             AddedLine(entry, calendars[calendar[p]])>>)
                                   /\ pos' = [pos EXCEPT ![p] = k]
                                   /\ UNCHANGED <<pc, fault>>
                              ELSE /\ Emit(p, <<SaveCall(event, TRUE)>>)
                                   /\ Propagate(p, Raised("entry", "KeyError", 76, k))
    /\ UNCHANGED <<procs, serviceEntries, calendars, calendar_name,
                   time_entries, calendar>>

\* as LogSummary, with the summary logged from inside the loop
LogSummaryEarly(p) ==
    /\ pc[p] = "write"
    /\ pos[p] >= 1
    /\ Emit(p, <<Log("INFO", "Entries added to the calendar")>>)
    /\ pc' = [pc EXCEPT ![p] = "done"]
    /\ UNCHANGED <<procs, serviceEntries, calendars, calendar_name,
                   time_entries, calendar, pos, fault, store>>

\* line 93: the loop is over
LogSummary(p) ==
    /\ pc[p] = "write"
    /\ pos[p] = Len(Iterate(time_entries[p]))
    /\ Emit(p, <<Log("INFO", "Entries added to the calendar")>>)
    /\ pc' = [pc EXCEPT ![p] = "done"]
    /\ UNCHANGED <<procs, serviceEntries, calendars, calendar_name,
                   time_entries, calendar, pos, fault, store>>

Next ==
    \/ \E p \in procs : Fetch(p)
    \/ \E p \in procs : Locate(p)
    \/ \E p \in procs : NotFound(p)
    \/ \E p \in procs : AddEntry(p)
    \/ \E p \in procs : LogSummary(p)

Spec == Init /\ [][Next]_vars

SpecTwo == InitTwo /\ [][Next]_vars

NextLocator == \E p \in procs : Locate(p)

SpecLocator == InitLocator /\ [][NextLocator]_vars

-----------------------------------------------------------------------------
(* Reading a trace *)

IsSave(e) == e.op = "save_event"

IsAdded(e) == e.op = "log" /\ e.msg = "Added entry"

IsError(e) == e.op = "log" /\ e.level = "ERROR"

IsSummaryLine(e) == e.op = "log" /\ e.msg = "Entries added to the calendar"

SaveCalls(p) == SelectSeq(trace[p], IsSave)

AddedLines(p) == SelectSeq(trace[p], IsAdded)

Positions(p, Test(_)) == {j \in 1..Len(trace[p]) : Test(trace[p][j])}

Ended(p) == pc[p] \in {"done", "fault"}

\* an entry with an id and a parsable interval; the description is optional
WellFormed(entry) ==
    /\ {"id", "timeInterval"} \subseteq DOMAIN entry
    /\ {"start", "end"} \subseteq DOMAIN entry.timeInterval
    /\ StrptimeOK(entry.timeInterval.start)
    /\ StrptimeOK(entry.timeInterval.end)

\* two names equal up to the case of their letters, letter by letter
CasePairs ==
    {<<"w", "W">>, <<"o", "O">>, <<"r", "R">>, <<"k", "K">>,
     <<"h", "H">>, <<"m", "M">>, <<"e", "E">>, <<"s", "S">>}

SameLetter(a, b) == a = b \/ <<a, b>> \in CasePairs \/ <<b, a>> \in CasePairs

SameIgnoringCase(a, b) ==
    /\ Len(a) = Len(b)
    /\ \A i \in 1..Len(a) : SameLetter(a[i], b[i])

Matching(name) == {i \in 1..Len(calendars) : SameIgnoringCase(calendars[i], name)}

-----------------------------------------------------------------------------
(* C1 *)

\* C1: a run that fetched a list of N well-formed entries, found the calendar
\* and met no failing save has, when it ends, called save_event exactly N
\* times, the i-th call carrying the id of the i-th entry as uid.
C1_OneSavePerEntry ==
    \A p \in procs :
        ( /\ Ended(p)
          /\ time_entries[p].kind = "list"
          /\ \A i \in 1..Len(time_entries[p].items) :
                 WellFormed(time_entries[p].items[i])
          /\ calendar[p] # None
          /\ \A j \in 1..Len(SaveCalls(p)) : SaveCalls(p)[j].returned )
        => /\ Len(SaveCalls(p)) = Len(time_entries[p].items)
           /\ \A j \in 1..Len(SaveCalls(p)) :
                  SaveCalls(p)[j].event.uid = time_entries[p].items[j].id

-----------------------------------------------------------------------------
(* C4 *)

\* C4: in every state the number of "Added entry" lines of a run equals the
\* number of its save_event calls that returned, entries without a
\* description included.
C4_OneLinePerSave ==
    \A p \in procs :
        Len(AddedLines(p)) =
            Cardinality({j \in 1..Len(SaveCalls(p)) : SaveCalls(p)[j].returned})

-----------------------------------------------------------------------------
(* C2 *)

Count(p, Test(_)) == Cardinality(Positions(p, Test))

Listed(p) == \E j \in 1..Len(trace[p]) : trace[p][j] = Listing

\* C2: once get_calendar has listed the calendars and none of them has the
\* requested name up to case, the run has no calendar, never enters
\* add_entries_to_calendar (no save_event call, no "Added entry" line, no
\* summary line) and ends with exactly one error line.
C2_NotFoundWritesNothing ==
    \A p \in procs :
        (Listed(p) /\ fault[p].at # "locate" /\ Matching(calendar_name) = {})
        => /\ calendar[p] = None
           /\ pc[p] \in {"notfound", "done"}
           /\ SaveCalls(p) = <<>>
           /\ Count(p, IsAdded) = 0
           /\ Count(p, IsSummaryLine) = 0
           /\ Count(p, IsError) = (IF pc[p] = "done" THEN 1 ELSE 0)
           /\ store = <<>>

C2_Witness ==
    /\ pc[1] = "done"
    /\ Len(calendars) = 2
    /\ Matching(calendar_name) = {}
    /\ time_entries[1].kind = "list"
    /\ Len(time_entries[1].items) = 2
    /\ Count(1, IsError) = 1

-----------------------------------------------------------------------------
(* C3 *)

\* C3: a run whose fetch raised (the service unreachable, or a body that is
\* not JSON), or whose fetch returned a JSON object instead of a list of
\* entries, logs no "Added entry" line and never has save_event return.
C3_FetchFaultWritesNothing ==
    \A p \in procs :
        (fault[p].at = "fetch" \/ time_entries[p].kind = "dict")
        => /\ SaveCalls(p) = <<>>
           /\ Count(p, IsAdded) = 0
           /\ store = <<>>

C3_Witness ==
    /\ fault[1].at = "fetch"
    /\ fault[1].exc = "JSONDecodeError"
    /\ pc[1] = "fault"
    /\ Len(serviceEntries) = 2
    /\ WellFormed(serviceEntries[1])

-----------------------------------------------------------------------------
(* C5 *)

\* C5: the j-th event handed to save_event has the description of the j-th
\* entry as summary, and "Work Entry" when that entry has no description.
C5_SummaryDefault ==
    \A p \in procs :
        \A j \in 1..Len(SaveCalls(p)) :
            LET entry == Iterate(time_entries[p])[j]
                event == SaveCalls(p)[j].event
            IN  /\ "description" \in DOMAIN entry => event.summary = entry.description
                /\ "description" \notin DOMAIN entry => event.summary = "Work Entry"

C5_Witness ==
    /\ Len(SaveCalls(1)) = 2
    /\ "description" \in DOMAIN time_entries[1].items[1]
    /\ SaveCalls(1)[1].event.summary = "Coding"
    /\ "description" \notin DOMAIN time_entries[1].items[2]
    /\ SaveCalls(1)[2].event.summary = "Work Entry"

-----------------------------------------------------------------------------
(* C6 *)

\* C6: get_calendar returns the first listed calendar whose name equals the
\* requested name up to case, and None exactly when no listed calendar does.
C6_FirstMatchIgnoringCase ==
    \A p \in procs :
        (Listed(p) /\ fault[p].at # "locate")
        => /\ calendar[p] = None <=> Matching(calendar_name) = {}
           /\ calendar[p] # None =>
                 /\ calendar[p] \in Matching(calendar_name)
                 /\ \A i \in Matching(calendar_name) : calendar[p] <= i

\* a request for "Work" returns the remote "work", the first of two matches
C6_Witness ==
    /\ calendar_name = <<"W", "o", "r", "k">>
    /\ Len(calendars) = 2
    /\ calendars[1] = work
    /\ calendars[2] = <<"W", "O", "R", "K">>
    /\ Listed(1)
    /\ calendar[1] = 1

-----------------------------------------------------------------------------
(* C7 *)

\* the UTC instant a local time with its offset denotes
UtcOf(local) == PlusSeconds(Instant(local), 0 - local.utcoffset)

\* Europe/Rome from January 2024 to March 2025: summer time from
\* 2024-03-31T01:00:00Z until 2024-10-27T01:00:00Z
OffsetIn2024(inst) ==
    IF /\ ~Before(inst, <<YmdToOrd(2024, 3, 31), 3600>>)
       /\ Before(inst, <<YmdToOrd(2024, 10, 27), 3600>>)
    THEN 7200 ELSE 3600

IsLocalTime(t) ==
    /\ t.mo \in 1..12
    /\ t.d \in 1..DaysInMonth(t.y, t.mo)
    /\ t.h \in 0..23 /\ t.mi \in 0..59 /\ t.s \in 0..59

Converted(local, text) ==
    /\ IsLocalTime(local)
    /\ UtcOf(local) = Instant(text)
    /\ local.utcoffset = OffsetIn2024(Instant(text))

Local(y, mo, d, h, mi, s, off) ==
    [y |-> y, mo |-> mo, d |-> d, h |-> h, mi |-> mi, s |-> s, utcoffset |-> off]

\* C7: dtstart and dtend of the j-th event handed to save_event denote the
\* instants of the j-th entry's timeInterval.start and timeInterval.end, with
\* the offset Europe/Rome has at that instant; the entry of 2024-03-01
\* 09:00:00Z to 10:30:00Z gives 10:00:00+01:00 to 11:30:00+01:00.
C7_SameInstantInRome ==
    \A p \in procs :
        \A j \in 1..Len(SaveCalls(p)) :
            LET entry == Iterate(time_entries[p])[j]
                event == SaveCalls(p)[j].event
            IN  /\ Converted(event.dtstart, entry.timeInterval.start)
                /\ Converted(event.dtend, entry.timeInterval.end)
                /\ entry = Coding =>
                      /\ event.dtstart = Local(2024, 3, 1, 10, 0, 0, 3600)
                      /\ event.dtend = Local(2024, 3, 1, 11, 30, 0, 3600)

\* the entry of the example, then one that straddles the switch to summer time
C7_Witness ==
    /\ Len(SaveCalls(1)) = 2
    /\ time_entries[1].items = <<Coding, Review>>
    /\ SaveCalls(1)[1].event.dtend = Local(2024, 3, 1, 11, 30, 0, 3600)
    /\ SaveCalls(1)[2].event.dtstart = Local(2024, 3, 31, 1, 59, 59, 3600)
    /\ SaveCalls(1)[2].event.dtend = Local(2024, 3, 31, 3, 0, 0, 7200)

-----------------------------------------------------------------------------
(* C8 *)

Returned(p) == SelectSeq(SaveCalls(p), LAMBDA c : c.returned)

\* C8: when an exception is raised while entry k is handled, the run is over:
\* the events it has written are those of the entries before k, in order
\* (with entry k itself when the exception came after its save, at line 76),
\* nothing of a later entry is written, no entry is written twice and the
\* summary line is not logged.
C8_FaultKeepsPrefix ==
    \A p \in procs :
        fault[p].at = "entry"
        => LET k     == fault[p].k
               items == Iterate(time_entries[p])
               m     == IF fault[p].line = 76 THEN k ELSE k - 1
           IN  /\ pc[p] = "fault"
               /\ pos[p] = k - 1
               /\ fault[p].line \in {67, 68, 74, 75} => Len(Returned(p)) = k - 1
               /\ Len(Returned(p)) = m
               /\ \A j \in 1..m : Returned(p)[j].event.uid = items[j].id
               /\ Len(SaveCalls(p)) <= k
               /\ Count(p, IsSummaryLine) = 0
               /\ store = [j \in 1..m |-> Returned(p)[j].event]

\* the second of three entries cannot be parsed
C8_Witness ==
    /\ fault[1].at = "entry"
    /\ fault[1].k = 2
    /\ fault[1].exc = "ValueError"
    /\ Len(time_entries[1].items) = 3
    /\ WellFormed(time_entries[1].items[3])
    /\ Len(store) = 1
    /\ store[1].uid = time_entries[1].items[1].id

-----------------------------------------------------------------------------
(* C9 *)

IsRequest(e) == e = Request

IsListing(e) == e = Listing

IsFetchLine(e) == e.op = "log" /\ e.msg = "Fetching time entries"

\* some event passing Test stands before position j of the trace of p
Earlier(p, j, Test(_)) == \E i \in Positions(p, Test) : i < j

\* C9: a run starts with the request of the fetcher; the calendars are listed
\* only after the fetcher has returned, also when no calendar is found;
\* save_event is called only after both, with a calendar found; and the
\* summary line is the last event, logged when every entry has been written.
C9_FetchLocateWriteSummary ==
    \A p \in procs :
        /\ trace[p] # <<>> => trace[p][1] = Request
        /\ \A j \in Positions(p, IsListing) :
              Earlier(p, j, IsRequest) /\ Earlier(p, j, IsFetchLine)
        /\ \A j \in Positions(p, IsError) :
              Earlier(p, j, IsRequest) /\ Earlier(p, j, IsListing)
        /\ \A j \in Positions(p, IsSave) :
              /\ Earlier(p, j, IsFetchLine)
              /\ Earlier(p, j, IsListing)
              /\ calendar[p] # None
        /\ \A j \in Positions(p, IsSummaryLine) :
              /\ j = Len(trace[p])
              /\ Earlier(p, j, IsListing)
              /\ calendar[p] # None
              /\ Len(Returned(p)) = Len(Iterate(time_entries[p]))
              /\ \A i \in 1..Len(Returned(p)) :
                    Returned(p)[i].event.uid = Iterate(time_entries[p])[i].id

C9_Witness ==
    /\ pc[1] = "done"
    /\ Count(1, IsSummaryLine) = 1
    /\ Len(Returned(1)) = 3
    /\ Len(calendars) = 2
    /\ calendar[1] = 2

-----------------------------------------------------------------------------
(* C10 *)

Occurrences(seq, Test(_)) == Cardinality({j \in 1..Len(seq) : Test(seq[j])})

\* a run that fetched the list, found the calendar and met no failing save
Undisturbed(p) ==
    /\ Ended(p)
    /\ time_entries[p].kind = "list"
    /\ time_entries[p].items = serviceEntries
    /\ calendar[p] # None
    /\ \A j \in 1..Len(SaveCalls(p)) : SaveCalls(p)[j].returned

\* C10: when two runs of main over the same N well-formed entries have both
\* ended, one after the other or interleaved, they have issued 2N save_event
\* calls together and the calendar holds two events for every entry.
C10_TwoSavesPerEntry ==
    ( /\ procs = {1, 2}
      /\ \A p \in procs : Undisturbed(p)
      /\ \A i \in 1..Len(serviceEntries) : WellFormed(serviceEntries[i]) )
    => /\ Len(SaveCalls(1)) + Len(SaveCalls(2)) = 2 * Len(serviceEntries)
       /\ Len(store) = 2 * Len(serviceEntries)
       /\ \A i \in 1..Len(serviceEntries) :
             Occurrences(store, LAMBDA ev : ev.uid = serviceEntries[i].id) =
                 2 * Occurrences(serviceEntries,
                                 LAMBDA e : e.id = serviceEntries[i].id)

-----------------------------------------------------------------------------
(* What holds of C1, C4 and C10 when every entry has a description *)

Described(entries) ==
    \A i \in 1..Len(entries) :
        IsDict(entries[i]) => "description" \in DOMAIN entries[i]

OneSavePerDescribedEntry ==
    (\A p \in procs : Described(Iterate(time_entries[p]))) => C1_OneSavePerEntry

OneLinePerDescribedSave ==
    (\A p \in procs : Described(Iterate(time_entries[p]))) => C4_OneLinePerSave

TwoSavesPerDescribedEntry == Described(serviceEntries) => C10_TwoSavesPerEntry

=============================================================================
